---- MODULE Spec2Model ----
(***************************************************************************)
(* Model of visu3d/plotly/traces_builder.py: the TraceNamer dataclass and  *)
(* its single operation set_name, which stamps a display name and a legend *)
(* group on a batch of plotly traces derived from one source object.       *)
(***************************************************************************)
EXTENDS Integers, Sequences, FiniteSets, TLC

\* ---------------------------------------------------------------- bounds
MaxCalls == 2   \* ids handed out in one run of Spec and of ConcSpec
MaxIds   == 3   \* ids handed out in one run of CounterSpec

Namers   == {1, 2}   \* two separately constructed TraceNamer objects
TraceIds == {1, 2}   \* the trace objects the caller holds
Threads  == {1, 2}   \* two threads calling set_name without a lock

\* ------------------------------------------------------- external objects
\* Python's None for an unset plotly field (kept apart from the empty string).
None == "<None>"

\* `not trace.name`: None and '' are the falsy values a name can take.
Falsy(v) == v = None \/ v = ""

\* Source objects: the concrete type name and the answers of the two external
\* predicates fig_utils.is_visualizable and enp.lazy.is_array.
Sources ==
  { [type |-> "Ray",     visualizable |-> TRUE,  is_array |-> FALSE],
    [type |-> "Point3d", visualizable |-> TRUE,  is_array |-> TRUE ],
    [type |-> "ndarray", visualizable |-> FALSE, is_array |-> TRUE ],
    [type |-> "Tensor",  visualizable |-> FALSE, is_array |-> TRUE ],
    [type |-> "str",     visualizable |-> FALSE, is_array |-> FALSE] }

\* Fields of a trace object when the caller first hands it over: both unset,
\* an empty name, or a name the caller chose.
InitTraces ==
  { [name |-> None,     legendgroup |-> None],
    [name |-> "",       legendgroup |-> "old"],
    [name |-> "custom", legendgroup |-> "old"] }

\* The `traces` arguments: lists of distinct trace objects, in any order.
Batches ==
  { s \in UNION { [1..k -> TraceIds] : k \in 0..Cardinality(TraceIds) } :
      \A i, j \in DOMAIN s : i # j => s[i] # s[j] }

\* ------------------------------------------------------------------ state
VARIABLES
  name_to_count,  \* [Namers -> dict]: per instance, category name -> next id
  traces,         \* [TraceIds -> [name, legendgroup]]: the trace objects
  call,           \* the last sequential set_name call: inputs, outcome, pre-state
  issued,         \* [Namers -> [CatNames -> Seq(Nat)]]: ids returned by next()
  th,             \* [Threads -> frame]: position and locals of each thread
  overlap         \* [Namers -> BOOLEAN]: two calls were in flight at once

vars == <<name_to_count, traces, call, issued, th, overlap>>

\* ----------------------------------------------------------- pure helpers
\* f'{name} {curr_id}'
Label(name, curr_id) == name \o " " \o ToString(curr_id)

\* Mutant: the numeric-array test is made before the visualizable test.
ClassifyArrayFirst(array) ==
  IF array.is_array THEN [raised |-> FALSE, name |-> "points"]
  ELSE IF array.visualizable THEN [raised |-> FALSE, name |-> array.type]
  ELSE [raised |-> TRUE, name |-> None]

\* The if / elif / else chain that picks the category name or raises TypeError.
Classify(array) ==
  IF array.visualizable THEN [raised |-> FALSE, name |-> array.type]
  ELSE IF array.is_array THEN [raised |-> FALSE, name |-> "points"]
  ELSE [raised |-> TRUE, name |-> None]

CatNames == { Classify(a).name : a \in { s \in Sources : ~Classify(s).raised } }

\* Mutant: every lookup builds a new itertools.count().
CurrIdAlwaysFresh(d, name) == 0

\* Value next() returns: the stored counter, or a fresh itertools.count() (0)
\* that the defaultdict creates for a key it has not seen.
CurrId(d, name) == IF name \in DOMAIN d THEN d[name] ELSE 0

\* The dict after `self.name_to_count[name]` holds a counter whose next value is v.
StoreCount(d, name, v) == (name :> v) @@ d

\* Mutant: one counter object is shared by all categories.
AdvanceShared(d, name) ==
  [k \in (DOMAIN d) \cup {name} |-> CurrId(d, name) + 1]

\* The dict after next(self.name_to_count[name]).
Advance(d, name) == StoreCount(d, name, CurrId(d, name) + 1)

\* Mutant: name_to_count is one dict shared by all instances (a mutable
\* class-level default instead of default_factory).
TraceNamerStoreShared(nc, self, d) == [m \in DOMAIN nc |-> d]

\* Writing instance `self`'s own name_to_count dict.
TraceNamerStore(nc, self, d) == [nc EXCEPT ![self] = d]

\* Mutant: the name is written on every trace, set or not.
StampOneAlways(tr, label) == [name |-> label, legendgroup |-> label]

\* Mutant: the legend group is only written together with the name.
StampOneGroupIfUnnamed(tr, label) ==
  IF Falsy(tr.name) THEN [name |-> label, legendgroup |-> label] ELSE tr

\* Body of the for loop on one trace object.
StampOne(tr, label) ==
  [name        |-> IF Falsy(tr.name) THEN label ELSE tr.name,
   legendgroup |-> label]

RECURSIVE StampFrom(_, _, _, _)
StampFrom(trs, batch, i, label) ==
  IF i > Len(batch) THEN trs
  ELSE StampFrom([trs EXCEPT ![batch[i]] = StampOne(trs[batch[i]], label)],
                 batch, i + 1, label)

\* The whole for loop over `traces`, in list order.
StampTraces(trs, batch, label) == StampFrom(trs, batch, 1, label)

\* ------------------------------------------------------------- set_name
\* Mutant: the source is classified before the empty-list test.
SetNameResultClassifyFirst(d, trs, batch, array) ==
  LET c == Classify(array) IN
  IF c.raised THEN
    [result |-> "TypeError", name |-> None, curr_id |-> -1,
     name_to_count |-> d, traces |-> trs]
  ELSE IF batch = <<>> THEN
    [result |-> "return", name |-> None, curr_id |-> -1,
     name_to_count |-> d, traces |-> trs]
  ELSE
    [result |-> "return", name |-> c.name, curr_id |-> CurrId(d, c.name),
     name_to_count |-> Advance(d, c.name),
     traces |-> StampTraces(trs, batch, Label(c.name, CurrId(d, c.name)))]

\* Mutant: the counter is read before the source is classified, so the
\* defaultdict entry is consumed even when the call raises.
SetNameResultCountFirst(d, trs, batch, array) ==
  LET c == Classify(array) IN
  IF batch = <<>> THEN
    [result |-> "return", name |-> None, curr_id |-> -1,
     name_to_count |-> d, traces |-> trs]
  ELSE IF c.raised THEN
    [result |-> "TypeError", name |-> None, curr_id |-> -1,
     name_to_count |-> Advance(d, array.type), traces |-> trs]
  ELSE
    [result |-> "return", name |-> c.name, curr_id |-> CurrId(d, c.name),
     name_to_count |-> Advance(d, c.name),
     traces |-> StampTraces(trs, batch, Label(c.name, CurrId(d, c.name)))]

\* Mutant: next() is called inside the loop, once per trace that gets a name.
SetNameResultCountPerName(d, trs, batch, array) ==
  LET c == Classify(array)
      n == Cardinality({ i \in 1..Len(batch) : Falsy(trs[batch[i]].name) })
  IN
  IF batch = <<>> THEN
    [result |-> "return", name |-> None, curr_id |-> -1,
     name_to_count |-> d, traces |-> trs]
  ELSE IF c.raised THEN
    [result |-> "TypeError", name |-> None, curr_id |-> -1,
     name_to_count |-> d, traces |-> trs]
  ELSE
    [result |-> "return", name |-> c.name, curr_id |-> CurrId(d, c.name),
     name_to_count |-> StoreCount(d, c.name, CurrId(d, c.name) + n),
     traces |-> StampTraces(trs, batch, Label(c.name, CurrId(d, c.name)))]

\* One sequential run of set_name(traces=batch, array) on an instance whose
\* name_to_count is d, with the trace objects in state trs: the outcome, the
\* locals `name` and `curr_id`, and the dict and trace objects afterwards.
SetNameResult(d, trs, batch, array) ==
  LET c == Classify(array) IN
  IF batch = <<>> THEN
    [result |-> "return", name |-> None, curr_id |-> -1,
     name_to_count |-> d, traces |-> trs]
  ELSE IF c.raised THEN
    [result |-> "TypeError", name |-> None, curr_id |-> -1,
     name_to_count |-> d, traces |-> trs]
  ELSE
    [result |-> "return", name |-> c.name, curr_id |-> CurrId(d, c.name),
     name_to_count |-> Advance(d, c.name),
     traces |-> StampTraces(trs, batch, Label(c.name, CurrId(d, c.name)))]

\* Ids handed out so far, over all instances and categories.
RECURSIVE SumLen(_, _)
SumLen(f, S) ==
  IF S = {} THEN 0
  ELSE LET x == CHOOSE y \in S : TRUE IN Len(f[x[1]][x[2]]) + SumLen(f, S \ {x})

TotalIssued == SumLen(issued, Namers \X CatNames)

\* The record kept of a sequential call.
CallRecord(self, batch, array, r) ==
  [namer |-> self, traces |-> batch, array |-> array,
   result |-> r.result, name |-> r.name, curr_id |-> r.curr_id,
   before_count |-> name_to_count, before_traces |-> traces]

NoCall ==
  [namer |-> 0, traces |-> <<>>,
   array |-> [type |-> None, visualizable |-> FALSE, is_array |-> FALSE],
   result |-> "init", name |-> None, curr_id |-> -1,
   before_count |-> [n \in Namers |-> <<>>],
   before_traces |-> [t \in TraceIds |-> [name |-> None, legendgroup |-> None]]]

IdleFrame ==
  [pc |-> "idle", namer |-> 0, traces |-> <<>>, name |-> None, curr_id |-> -1,
   result |-> "init"]

\* Two freshly constructed namers (default_factory gives each its own empty
\* defaultdict) and the caller's trace objects.
Init ==
  /\ name_to_count = [n \in Namers |-> <<>>]
  /\ traces \in [TraceIds -> InitTraces]
  /\ call = NoCall
  /\ issued = [n \in Namers |-> [c \in CatNames |-> <<>>]]
  /\ th = [t \in Threads |-> IdleFrame]
  /\ overlap = [n \in Namers |-> FALSE]

\* self.set_name(batch, array), run from entry to exit by a single thread.
set_name(self, batch, array) ==
  \E r \in {SetNameResult(name_to_count[self], traces, batch, array)} :
    /\ name_to_count' = IF r.name_to_count = name_to_count[self] THEN name_to_count
                        ELSE TraceNamerStore(name_to_count, self, r.name_to_count)
    /\ traces' = r.traces
    /\ call' = CallRecord(self, batch, array, r)
    /\ issued' = IF r.result = "return" /\ batch # <<>>
                 THEN [issued EXCEPT ![self][r.name] = Append(@, r.curr_id)]
                 ELSE issued
    /\ UNCHANGED <<th, overlap>>

\* Sequential use: any instance, any list of the caller's traces, any source.
Next ==
  \E self \in Namers, batch \in Batches, array \in Sources :
    /\ set_name(self, batch, array)
    /\ SumLen(issued', Namers \X CatNames) <= MaxCalls

Spec == Init /\ [][Next]_vars

\* Sequential use with longer runs: every call passes either no trace or all
\* of the caller's traces.
FullBatch ==
  CHOOSE s \in Batches : Len(s) = Cardinality(TraceIds) /\ s[1] = 1

CounterNext ==
  \E self \in Namers, batch \in {<<>>, FullBatch}, array \in Sources :
    /\ set_name(self, batch, array)
    /\ SumLen(issued', Namers \X CatNames) <= MaxIds

CounterSpec == Init /\ [][CounterNext]_vars

\* ------------------------------------------- unsynchronized concurrent use
\* Thread t enters set_name(batch, array) on instance self: the empty-list
\* test and the classification touch no shared state.  A thread passes its
\* own trace object.
OwnBatch(t) == << ((t - 1) % Cardinality(TraceIds)) + 1 >>

InFlight == { u \in Threads : th[u].pc # "idle" }

t_call(t, self, batch, array) ==
  /\ th[t].pc = "idle"
  /\ TotalIssued + Cardinality({ u \in Threads : th[u].pc \in {"load", "store"} }) < MaxCalls
  /\ \E c \in {Classify(array)} :
       th' = [th EXCEPT ![t] =
                IF batch = <<>> THEN [IdleFrame EXCEPT !.result = "return"]
                ELSE IF c.raised THEN [IdleFrame EXCEPT !.result = "TypeError"]
                ELSE [pc |-> "load", namer |-> self, traces |-> batch,
                      name |-> c.name, curr_id |-> -1, result |-> "running"]]
  /\ overlap' = IF batch # <<>> /\ ~Classify(array).raised
                   /\ \E u \in InFlight : th[u].namer = self
                THEN [overlap EXCEPT ![self] = TRUE]
                ELSE overlap
  /\ UNCHANGED <<name_to_count, traces, call, issued>>

\* next(self.name_to_count[name]), first half: the counter's value is read
\* (a missing key reads as a new count() at 0).
t_load(t) ==
  /\ th[t].pc = "load"
  /\ th' = [th EXCEPT ![t].pc = "store",
                      ![t].curr_id = CurrId(name_to_count[th[t].namer], th[t].name)]
  /\ UNCHANGED <<name_to_count, traces, call, issued, overlap>>

\* next(...), second half: the advanced counter is written back and the value
\* read becomes curr_id.
t_store(t) ==
  /\ th[t].pc = "store"
  /\ name_to_count' =
       TraceNamerStore(name_to_count, th[t].namer,
         StoreCount(name_to_count[th[t].namer], th[t].name, th[t].curr_id + 1))
  /\ issued' = [issued EXCEPT ![th[t].namer][th[t].name] = Append(@, th[t].curr_id)]
  /\ th' = [th EXCEPT ![t].pc = "loop"]
  /\ UNCHANGED <<traces, call, overlap>>

\* The for loop, then the return.
t_loop(t) ==
  /\ th[t].pc = "loop"
  /\ traces' = StampTraces(traces, th[t].traces, Label(th[t].name, th[t].curr_id))
  /\ th' = [th EXCEPT ![t].pc = "idle", ![t].result = "return"]
  /\ UNCHANGED <<name_to_count, call, issued, overlap>>

ConcNext ==
  \E t \in Threads :
    \/ \E self \in Namers, batch \in {<<>>, OwnBatch(t)}, array \in Sources :
         t_call(t, self, batch, array)
    \/ t_load(t)
    \/ t_store(t)
    \/ t_loop(t)

ConcSpec == Init /\ [][ConcNext]_vars

\* ------------------------------------------------------------ properties
\* The ids 0, 1, 2, ... in order.
Gapless(ids) == \A i \in 1..Len(ids) : ids[i] = i - 1

\* The last sequential call ran the loop: non-empty list, classified source.
Stamped == call.result = "return" /\ call.traces # <<>>

CallLabel == Label(call.name, call.curr_id)

BeforeName(i) == call.before_traces[call.traces[i]].name

\* C1: on one TraceNamer the ids handed out for a category are 0, 1, 2, ... in
\* call order whatever calls for other categories come in between, and a call
\* for one category leaves the next id of every other category of that
\* instance as it was.
C1_IdsCountUpPerCategory ==
  /\ \A n \in Namers, c \in CatNames : Gapless(issued[n][c])
  /\ Stamped =>
       \A c \in CatNames \ {call.name} :
         CurrId(name_to_count[call.namer], c)
           = CurrId(call.before_count[call.namer], c)

C1_Witness ==
  /\ Stamped /\ call.name = "Ray" /\ call.curr_id = 1
  /\ issued[call.namer]["Ray"] = <<0, 1>>
  /\ issued[call.namer]["points"] = <<0>>

\* C2: after a call with a non-empty list and a visualizable source of type
\* T, every trace of the list has legend group "T k", k being the number of
\* earlier such calls for T on this instance, whatever group it had before.
C2_GroupIsTypeAndCallCount ==
  (Stamped /\ call.array.visualizable) =>
    \A i \in DOMAIN call.traces :
      traces[call.traces[i]].legendgroup
        = Label(call.array.type, Len(issued[call.namer][call.array.type]) - 1)

C2_Witness ==
  /\ Stamped /\ call.array.visualizable /\ Len(call.traces) = 2
  /\ Len(issued[call.namer][call.array.type]) = 2
  /\ \E i \in DOMAIN call.traces :
       call.before_traces[call.traces[i]].legendgroup = "old"
  /\ \A i \in DOMAIN call.traces : traces[call.traces[i]].legendgroup = "Ray 1"

\* C3: a call with a non-empty list and a source that is neither visualizable
\* nor an array raises TypeError and changes no counter, no dict entry and no
\* trace field.
C3_ErrorLeavesStateUnchanged ==
  (call.result # "init" /\ call.traces # <<>>
     /\ ~call.array.visualizable /\ ~call.array.is_array) =>
    /\ call.result = "TypeError"
    /\ name_to_count = call.before_count
    /\ traces = call.before_traces

C3_Witness ==
  /\ call.result = "TypeError" /\ Len(call.traces) = 2
  /\ name_to_count[call.namer] # <<>>
  /\ \E t \in TraceIds : Falsy(traces[t].name)

\* C4: a call with an empty list returns without error for every source,
\* classifiable or not, and changes no counter and no trace.
C4_EmptyListIsNoOp ==
  (call.result # "init" /\ call.traces = <<>>) =>
    /\ call.result = "return"
    /\ name_to_count = call.before_count
    /\ traces = call.before_traces

C4_Witness ==
  /\ call.result = "return" /\ call.traces = <<>>
  /\ ~call.array.visualizable /\ ~call.array.is_array
  /\ name_to_count[call.namer] # <<>>

C6_OnlyFirstEmptyNamed ==
  Stamped =>
    \A i \in DOMAIN call.traces :
      (Falsy(BeforeName(i)) /\ \E j \in 1..(i - 1) : Falsy(BeforeName(j)))
        => traces[call.traces[i]].name = BeforeName(i)

\* C7: with a non-empty list the source is classified in a fixed order with
\* exactly one outcome: visualizable gives the type name (also for an array),
\* otherwise an array gives "points" and draws from the one "points" counter,
\* otherwise the call raises.
C7_ClassificationOrder ==
  (call.result # "init" /\ call.traces # <<>>) =>
    /\ call.array.visualizable =>
         call.result = "return" /\ call.name = call.array.type
    /\ (~call.array.visualizable /\ call.array.is_array) =>
         /\ call.result = "return" /\ call.name = "points"
         /\ call.curr_id = CurrId(call.before_count[call.namer], "points")
         /\ name_to_count[call.namer]["points"] = call.curr_id + 1
    /\ (~call.array.visualizable /\ ~call.array.is_array) =>
         call.result = "TypeError"

C7_Witness ==
  /\ Stamped /\ call.array.visualizable /\ call.array.is_array
  /\ call.name = "Point3d" /\ traces[call.traces[1]].legendgroup = "Point3d 0"
  /\ "points" \notin DOMAIN name_to_count[call.namer]

\* C8: a call on one TraceNamer changes nothing in another one, and the first
\* id an instance hands out for a category is 0.
C8_CountersArePerInstance ==
  /\ call.result # "init" =>
       \A n \in Namers \ {call.namer} : name_to_count[n] = call.before_count[n]
  /\ \A n \in Namers, c \in CatNames :
       Len(issued[n][c]) >= 1 => issued[n][c][1] = 0

C8_Witness ==
  /\ Stamped /\ call.curr_id = 0 /\ call.name = "Ray"
  /\ \E n \in Namers \ {call.namer} : issued[n]["Ray"] = <<0, 1>>

C10_OneIdPerCall ==
  Stamped =>
    CurrId(name_to_count[call.namer], call.name)
      = CurrId(call.before_count[call.namer], call.name) + 1

C10_Witness ==
  /\ Stamped /\ Len(call.traces) = 2 /\ call.curr_id = 0
  /\ \A i \in DOMAIN call.traces : ~Falsy(BeforeName(i))
  /\ name_to_count[call.namer][call.name] = 1
  /\ \A t \in TraceIds : traces[t].name # CallLabel

====
